---- MODULE Spec2Model ----
(***************************************************************************)
(* Model of rust_icu_uloc (src/rust_icu_uloc/src/lib.rs): the buffered     *)
(* string invocation protocol generated by the macro                      *)
(* buffered_string_method_with_retry!, ULoc construction through           *)
(* canonicalize, and accept_language.                                     *)
(*                                                                         *)
(* The native ICU4C function behind `uloc_method` is the environment: at   *)
(* every call it may leave any status, report any length and write the    *)
(* bytes that fit into the capacity it was given.                          *)
(***************************************************************************)
EXTENDS Integers, Sequences, FiniteSets, TLC

(***************************************************************************)
(* Bounds of the model.                                                    *)
(***************************************************************************)
\* reported lengths above LOCALE_CAPACITY that the native function may report
MaxOver == 2
\* reported lengths just below and at LOCALE_CAPACITY: LOCALE_CAPACITY - MaxNear .. LOCALE_CAPACITY
MaxNear == 1
\* small reported lengths: 0 .. MaxSmall
MaxSmall == 1
\* negative reported lengths: -MaxNeg .. -1
MaxNeg == 1
\* longest accept list and longest available list passed to accept_language
MaxList == 1

(***************************************************************************)
(* Program constants.                                                      *)
(***************************************************************************)
LOCALE_CAPACITY == 158

\* bytes: the fill byte of vec![0; n] / resize(n, 0), an ASCII letter, and a
\* byte that never occurs in valid UTF-8
NulByte == 0
AsciiByte == 97
InvalidByte == 255
\* the separators '-' and '_' and an upper-case letter of a locale name
HyphenByte == 45
UnderscoreByte == 95
UpperByte == 65

\* UErrorCode values the native function may leave in `status`
OK_CODE == "U_ZERO_ERROR"
U_BUFFER_OVERFLOW_ERROR == "U_BUFFER_OVERFLOW_ERROR"
U_ILLEGAL_ARGUMENT_ERROR == "U_ILLEGAL_ARGUMENT_ERROR"
U_STRING_NOT_TERMINATED_WARNING == "U_STRING_NOT_TERMINATED_WARNING"
UErrorCode ==
    {OK_CODE, U_STRING_NOT_TERMINATED_WARNING, U_ILLEGAL_ARGUMENT_ERROR,
     U_BUFFER_OVERFLOW_ERROR}
WarningCodes == {U_STRING_NOT_TERMINATED_WARNING}

\* UAcceptResult values
ULOC_ACCEPT_FAILED == "ULOC_ACCEPT_FAILED"
ULOC_ACCEPT_VALID == "ULOC_ACCEPT_VALID"
ULOC_ACCEPT_FALLBACK == "ULOC_ACCEPT_FALLBACK"
UAcceptResult == {ULOC_ACCEPT_FAILED, ULOC_ACCEPT_VALID, ULOC_ACCEPT_FALLBACK}

(***************************************************************************)
(* The error bridge (rust_icu_common::Error).                              *)
(***************************************************************************)
\* common::Error::is_ok: the status is exactly the no-error code
is_ok(st) == st = OK_CODE

\* common::Error::ok_or_warning: TRUE when the status is OK or a warning,
\* FALSE when it is a strict error (the caller then returns Err(Sys(status)))
ok_or_warning(st) == is_ok(st) \/ st \in WarningCodes

(***************************************************************************)
(* Byte buffers.                                                           *)
(***************************************************************************)
\* vec![b; n]
Fill(n, b) == [i \in 1..n |-> b]

\* Vec::resize(n, 0): truncate to n, or pad with zero bytes up to n
Resize(b, n) == [i \in 1..n |-> IF i <= Len(b) THEN b[i] ELSE NulByte]

\* i32 -> usize TryInto: possible exactly for non-negative values
TryIntoUsizeOk(n) == n >= 0

\* String::from_utf8 succeeds exactly when no byte is invalid
Utf8Ok(b) == \A i \in 1..Len(b) : b[i] # InvalidByte

\* CString::new fails (and as_c_str panics) on a NUL byte in the text
HasNul(s) == \E i \in 1..Len(s) : s[i] = NulByte

(***************************************************************************)
(* The native function.                                                    *)
(***************************************************************************)
ReportedLengths ==
    ((0 - MaxNeg)..MaxSmall)
        \cup ((LOCALE_CAPACITY - MaxNear)..(LOCALE_CAPACITY + MaxOver))

\* what one native call may do: the status it leaves, the length it returns,
\* the bytes of its output, and the match quality it stores (accept only)
NativeResponse ==
    [status : UErrorCode, len : ReportedLengths,
     byte : {AsciiByte, InvalidByte}, quality : UAcceptResult]

\* the buffer after a native call with capacity cap: the output bytes that
\* fit, then a NUL terminator if there is room for it
NativeWrite(b, cap, r) ==
    [i \in 1..Len(b) |->
        IF i <= r.len /\ i <= cap THEN r.byte
        ELSE IF i = r.len + 1 /\ i <= cap THEN NulByte
        ELSE b[i]]

(***************************************************************************)
(* A truthful native library: what a function writes is its output for the *)
(* text it was given, and the length it reports is that output's length.   *)
(***************************************************************************)
\* uloc_canonicalize: separators become '_'
Canon(t) == [i \in 1..Len(t) |-> IF t[i] = HyphenByte THEN UnderscoreByte ELSE t[i]]

LikelySuffix == <<UnderscoreByte, UpperByte>>
HasLikely(t) == Len(t) >= 2 /\ SubSeq(t, Len(t) - 1, Len(t)) = LikelySuffix

\* uloc_addLikelySubtags: the canonical name with the likely subtag added
Likely(t) == IF HasLikely(Canon(t)) THEN Canon(t) ELSE Canon(t) \o LikelySuffix

\* uloc_minimizeSubtags: the canonical name with the likely subtag removed
Minimize(t) ==
    IF HasLikely(Canon(t)) THEN SubSeq(Canon(t), 1, Len(t) - 2) ELSE Canon(t)

ULocMethods == {"uloc_canonicalize", "uloc_addLikelySubtags", "uloc_minimizeSubtags"}

MethodOutput(m, t) ==
    CASE m = "uloc_canonicalize" -> Canon(t)
      [] m = "uloc_addLikelySubtags" -> Likely(t)
      [] m = "uloc_minimizeSubtags" -> Minimize(t)
      [] OTHER -> <<>>

\* uloc_setDefault keeps the name it is given in its normal form
StoredDefault(t) == Canon(t)

\* the status of a truthful call: it may fail; else it reports an output
\* that does not fit (by status, or silently), one that fits without its
\* terminator, or one that fits
TruthfulStatuses(l, cap, quiet) ==
    {U_ILLEGAL_ARGUMENT_ERROR}
        \cup (IF l > cap
              THEN {IF quiet THEN OK_CODE ELSE U_BUFFER_OVERFLOW_ERROR}
              ELSE IF l = cap THEN {U_STRING_NOT_TERMINATED_WARNING}
              ELSE {OK_CODE})

TruthfulResponse(m, t, cap, quiet) ==
    {[status |-> st, len |-> Len(MethodOutput(m, t)), byte |-> AsciiByte,
      quality |-> ULOC_ACCEPT_FAILED] :
        st \in TruthfulStatuses(Len(MethodOutput(m, t)), cap, quiet)}

\* the buffer after a truthful call with capacity cap
WriteText(b, cap, o) ==
    [i \in 1..Len(b) |->
        IF i <= Len(o) /\ i <= cap THEN o[i]
        ELSE IF i = Len(o) + 1 /\ i <= cap THEN NulByte
        ELSE b[i]]

(***************************************************************************)
(* Values.                                                                 *)
(***************************************************************************)
NoString == <<>>
\* Result<String, common::Error> of the protocol, or a panic
NoRet == [kind |-> "None", status |-> OK_CODE, str |-> NoString]
RetOk(s) == [kind |-> "Ok", status |-> OK_CODE, str |-> s]
RetSys(st) == [kind |-> "ErrSys", status |-> st, str |-> NoString]
RetUtf8 == [kind |-> "ErrUtf8", status |-> OK_CODE, str |-> NoString]
RetPanic == [kind |-> "Panic", status |-> OK_CODE, str |-> NoString]

\* result of a public operation: loc is <<>> (None / no ULoc) or <<repr>>
NoOutcome ==
    [kind |-> "None", status |-> OK_CODE, loc |-> <<>>, quality |-> ULOC_ACCEPT_FAILED]
OutOk(l, q) == [kind |-> "Ok", status |-> OK_CODE, loc |-> l, quality |-> q]
OutErr(k, st) == [kind |-> k, status |-> st, loc |-> <<>>, quality |-> ULOC_ACCEPT_FAILED]
OutPanic == OutErr("Panic", OK_CODE)

VARIABLES
    frame,          \* the invocation running: "idle", "try_from", "method", "negotiate",
                    \* "canonicalize", "set_default", "get_default"
    pc,             \* position inside it
    status,         \* `status` of the protocol
    full_len,       \* `full_len` of the protocol (the first call's return value)
    buf,            \* `buf` of the protocol
    calls,          \* capacities passed to the native function in this invocation
    reports,        \* what each native call of this invocation left: status, length, quality
    ret,            \* value returned by the protocol
    accept_result,  \* `accept_result` of accept_language
    accept_list,    \* reprs of the accept list of accept_language
    neg_reports,    \* `reports` of the negotiation invocation of accept_language
    outcome,        \* result of the public operation
    native,         \* how the native library behaves: "any" or "truthful"
    silent,         \* a truthful native function truncates silently instead of U_BUFFER_OVERFLOW_ERROR
    method,         \* the native function behind `uloc_method`
    arg,            \* the text whose C string is passed to it (the receiver's repr)
    held,           \* the ULoc the caller holds: <<>> or <<repr>>
    default,        \* the native library's process-wide default locale name
    last_set,       \* <<repr>> of the last set_default if it returned Ok, else <<>>
    cstrings,       \* `accept_list_cstrings`: the heap buffers the vector owns
    ptrs,           \* `accept_list`: the pointer array handed to the native call
    enum_live       \* the Enumeration `available_locales` exists

envvars == <<native, silent>>
callvars == <<method, arg>>
locvars == <<held, default, last_set>>
memvars == <<cstrings, ptrs, enum_live>>

vars ==
    <<frame, pc, status, full_len, buf, calls, reports, ret, accept_result,
      accept_list, neg_reports, outcome, envvars, callvars, locvars, memvars>>

\* the state before any operation; the system default is a plain name
Idle ==
    /\ frame = "idle"
    /\ pc = "idle"
    /\ status = OK_CODE
    /\ full_len = 0
    /\ buf = <<>>
    /\ calls = <<>>
    /\ reports = <<>>
    /\ ret = NoRet
    /\ accept_result = ULOC_ACCEPT_FAILED
    /\ accept_list = <<>>
    /\ neg_reports = <<>>
    /\ outcome = NoOutcome
    /\ method = "none"
    /\ arg = <<>>
    /\ held = <<>>
    /\ default = <<AsciiByte>>
    /\ last_set = <<>>
    /\ cstrings = <<>>
    /\ ptrs = <<>>
    /\ enum_live = FALSE

\* the native library may do anything its signature allows
Init ==
    /\ Idle
    /\ native = "any"
    /\ silent = FALSE

(***************************************************************************)
(* Inputs of the public operations.                                        *)
(***************************************************************************)
\* texts handed to ULoc::try_from(&str): a plain one, one with an interior
\* NUL, the empty one, one that is not in canonical spelling, and one that
\* is longer than LOCALE_CAPACITY
InputStrings ==
    {<<AsciiByte>>, <<AsciiByte, NulByte, AsciiByte>>, <<>>,
     <<AsciiByte, HyphenByte, AsciiByte>>, Fill(LOCALE_CAPACITY + 1, AsciiByte)}

\* reprs of the ULoc values handed to accept_language: a plain one, and the
\* repr the protocol yields when the native function reports length 0
InputReprs == {<<AsciiByte>>, Fill(LOCALE_CAPACITY, NulByte)}

SeqsUpTo(S, n) == UNION {[1..k -> S] : k \in 0..n}

(***************************************************************************)
(* buffered_string_method_with_retry                                       *)
(***************************************************************************)
\* entry of the generated method: status = OK_CODE, buf = vec![0; capacity]
EnterProtocol(fr) ==
    /\ frame' = fr
    /\ pc' = "first"
    /\ status' = OK_CODE
    /\ full_len' = 0
    /\ buf' = Fill(LOCALE_CAPACITY, NulByte)
    /\ calls' = <<>>
    /\ reports' = <<>>
    /\ ret' = NoRet

\* the locals of accept_language are dropped when it is left: the C strings
\* are freed and the enumeration is closed
Release ==
    /\ cstrings' = <<>>
    /\ ptrs' = <<>>
    /\ enum_live' = FALSE

\* a panic (failed assert! / expect) unwinds the whole public operation
Panic ==
    /\ pc' = "done"
    /\ outcome' = OutPanic
    /\ ret' = RetPanic
    /\ Release

\* what the native function may do when called with capacity cap
Responses(cap) ==
    IF native = "any" THEN NativeResponse
    ELSE TruthfulResponse(method, arg, cap, silent)

\* the native call: what it leaves in status, buf and (accept only) accept_result
NativeCall(cap, r) ==
    /\ status' = r.status
    /\ buf' = IF native = "any" THEN NativeWrite(buf, cap, r)
              ELSE WriteText(buf, cap, MethodOutput(method, arg))
    /\ calls' = Append(calls, cap)
    /\ accept_result' = IF frame = "negotiate" THEN r.quality ELSE accept_result
    /\ reports' =
        Append(reports, [status |-> r.status, len |-> r.len, quality |-> accept_result'])
    /\ neg_reports' = IF frame = "negotiate" THEN reports' ELSE neg_reports

\* the first native call, with the default capacity
FirstCall ==
    /\ pc = "first"
    /\ IF ~is_ok(status)
       THEN /\ Panic
            /\ UNCHANGED <<frame, status, full_len, buf, calls, reports,
                           accept_result, accept_list, neg_reports>>
       ELSE \E r \in Responses(LOCALE_CAPACITY) :
            /\ NativeCall(LOCALE_CAPACITY, r)
            /\ full_len' = r.len
            /\ pc' = "check"
            /\ UNCHANGED <<frame, ret, accept_list, outcome, memvars>>
    /\ UNCHANGED <<envvars, callvars, locvars>>

\* NeedsRetry that also retries after any OK call
NeedsRetry_WheneverOk(st, len) == st = U_BUFFER_OVERFLOW_ERROR \/ is_ok(st)

\* NeedsRetry without the silent-truncation test
NeedsRetry_StatusOnly(st, len) == st = U_BUFFER_OVERFLOW_ERROR

\* the two overflow signals: explicit status, or OK with a length above the capacity
NeedsRetry(st, len) ==
    st = U_BUFFER_OVERFLOW_ERROR \/ (is_ok(st) /\ len > LOCALE_CAPACITY)

\* the overflow test, assert!(full_len > 0) and the resize to full_len
CheckOverflow ==
    /\ pc = "check"
    /\ IF NeedsRetry(status, full_len)
       THEN IF ~(full_len > 0)
            THEN /\ Panic
                 /\ UNCHANGED <<frame, status, full_len, buf, calls, reports,
                                accept_result, accept_list, neg_reports>>
            ELSE /\ buf' = Resize(buf, full_len)
                 /\ pc' = "second"
                 /\ UNCHANGED <<frame, status, full_len, calls, reports, ret,
                                accept_result, accept_list, neg_reports, outcome,
                                memvars>>
       ELSE /\ pc' = "finish"
            /\ UNCHANGED <<frame, status, full_len, buf, calls, reports, ret,
                           accept_result, accept_list, neg_reports, outcome,
                           memvars>>
    /\ UNCHANGED <<envvars, callvars, locvars>>

\* assert!(is_ok(status)) and the retry call with capacity full_len; the
\* length the retry returns is dropped
SecondCall ==
    /\ pc = "second"
    /\ IF ~is_ok(status)
       THEN /\ Panic
            /\ UNCHANGED <<frame, status, full_len, buf, calls, reports,
                           accept_result, accept_list, neg_reports>>
       ELSE \E r \in Responses(full_len) :
            /\ NativeCall(full_len, r)
            /\ pc' = "finish"
            /\ UNCHANGED <<frame, full_len, ret, accept_list, outcome, memvars>>
    /\ UNCHANGED <<envvars, callvars, locvars>>

\* the buffer that is decoded: resized to full_len only when full_len > 0
FinalBuf(b, len) == IF len > 0 THEN Resize(b, len) ELSE b

\* ok_or_warning(status)?, the final resize and String::from_utf8
ProtocolResult(st, b, len) ==
    IF ~ok_or_warning(st) THEN RetSys(st)
    ELSE IF len > 0 /\ ~TryIntoUsizeOk(len)
         THEN [kind |-> "ErrWrapper", status |-> OK_CODE, str |-> NoString]
    ELSE IF Utf8Ok(FinalBuf(b, len)) THEN RetOk(FinalBuf(b, len))
    ELSE RetUtf8

Finish ==
    /\ pc = "finish"
    /\ ret' = ProtocolResult(status, buf, full_len)
    /\ pc' = "returned"
    /\ UNCHANGED <<frame, status, full_len, buf, calls, reports, accept_result,
                   accept_list, neg_reports, outcome, envvars, callvars,
                   locvars, memvars>>

(***************************************************************************)
(* ULoc::try_from(&str) -> canonicalize -> call_buffered_string_method     *)
(***************************************************************************)
TryFromStr ==
    /\ pc = "idle"
    /\ UNCHANGED <<envvars, locvars>>
    /\ method' = "uloc_canonicalize"
    /\ \E s \in InputStrings :
        /\ arg' = s
        /\ IF HasNul(s)
           THEN /\ Panic
                /\ frame' = "try_from"
                /\ UNCHANGED <<status, full_len, buf, calls, reports,
                               accept_result, accept_list, neg_reports>>
           ELSE /\ EnterProtocol("try_from")
                /\ UNCHANGED <<accept_result, accept_list, neg_reports, outcome,
                               memvars>>

\* .map(|repr| ULoc { repr }) on the protocol's result
ULocResult(r) ==
    IF r.kind = "Ok" THEN OutOk(<<r.str>>, ULOC_ACCEPT_FAILED)
    ELSE OutErr(r.kind, r.status)

TryFromReturn ==
    /\ frame \in {"try_from", "method"}
    /\ pc = "returned"
    /\ outcome' = ULocResult(ret)
    /\ pc' = "done"
    /\ UNCHANGED <<frame, status, full_len, buf, calls, reports, ret,
                   accept_result, accept_list, neg_reports, envvars, callvars,
                   locvars, memvars>>

(***************************************************************************)
(* accept_language                                                         *)
(***************************************************************************)
\* accept_list_cstrings.push(c) without keeping c: the C string is a
\* temporary that is freed as soon as its address was taken
PushCString_Temporary(cs, a) == cs

\* accept_list_cstrings.push(uloc.as_c_str()): the vector owns the heap
\* buffer at address a from now on
PushCString(cs, a) == Append(cs, a)

\* the vector after the closure ran for the first n items; the i-th C string
\* is a fresh heap buffer, at address i
RECURSIVE AcceptListCStrings(_)
AcceptListCStrings(n) ==
    IF n = 0 THEN <<>> ELSE PushCString(AcceptListCStrings(n - 1), n)

\* .last().as_ptr() of each item, collected: the address of the buffer just
\* pushed (a push may move the vector's slots, never the heap buffers)
AcceptListPointers(n) == [i \in 1..n |-> i]

\* accept_result = FAILED, the accept list's C strings (as_c_str panics on a
\* NUL), the enumeration of the available labels, then the protocol
AcceptLanguage ==
    /\ pc = "idle"
    /\ UNCHANGED <<envvars, locvars>>
    /\ method' = "uloc_acceptLanguage"
    /\ arg' = <<>>
    /\ \E acc \in SeqsUpTo(InputReprs, MaxList),
          avail \in SeqsUpTo(InputReprs, MaxList),
          enumOk \in BOOLEAN :
        /\ accept_result' = ULOC_ACCEPT_FAILED
        /\ accept_list' = acc
        /\ neg_reports' = <<>>
        /\ IF \E i \in 1..Len(acc) : HasNul(acc[i])
           THEN /\ Panic
                /\ frame' = "negotiate"
                /\ UNCHANGED <<status, full_len, buf, calls, reports>>
           ELSE IF ~enumOk \/ \E i \in 1..Len(avail) : HasNul(avail[i])
           THEN /\ outcome' = OutErr("ErrEnum", OK_CODE)
                /\ pc' = "done"
                /\ frame' = "negotiate"
                /\ Release
                /\ UNCHANGED <<status, full_len, buf, calls, reports, ret>>
           ELSE /\ EnterProtocol("negotiate")
                /\ cstrings' = AcceptListCStrings(Len(acc))
                /\ ptrs' = AcceptListPointers(Len(acc))
                /\ enum_live' = TRUE
                /\ UNCHANGED outcome

\* NoMatch without the early return
NoMatch_Never(q) == FALSE

\* accept_result == ULOC_ACCEPT_FAILED
NoMatch(q) == q = ULOC_ACCEPT_FAILED

\* the early return on no match, else matched_locale.and_then(ULoc::try_from)
AcceptDecide ==
    /\ frame = "negotiate"
    /\ pc = "returned"
    /\ IF NoMatch(accept_result)
       THEN /\ outcome' = OutOk(<<>>, accept_result)
            /\ pc' = "done"
            /\ Release
            /\ UNCHANGED <<frame, status, full_len, buf, calls, reports, ret,
                           callvars>>
       ELSE IF ret.kind # "Ok"
       THEN /\ outcome' = OutErr(ret.kind, ret.status)
            /\ pc' = "done"
            /\ Release
            /\ UNCHANGED <<frame, status, full_len, buf, calls, reports, ret,
                           callvars>>
       ELSE IF HasNul(ret.str)
       THEN /\ Panic
            /\ UNCHANGED <<frame, status, full_len, buf, calls, reports,
                           callvars>>
       ELSE /\ EnterProtocol("canonicalize")
            /\ method' = "uloc_canonicalize"
            /\ arg' = ret.str
            /\ UNCHANGED <<outcome, memvars>>
    /\ UNCHANGED <<accept_result, accept_list, neg_reports, envvars, locvars>>

\* AcceptValue pairing the match with a fixed quality
AcceptValue_AlwaysValid(l, q) == OutOk(l, ULOC_ACCEPT_VALID)

\* .map(|uloc| (Some(uloc), accept_result))
AcceptValue(l, q) == OutOk(l, q)

AcceptReturn ==
    /\ frame = "canonicalize"
    /\ pc = "returned"
    /\ outcome' = IF ret.kind = "Ok" THEN AcceptValue(<<ret.str>>, accept_result)
                  ELSE OutErr(ret.kind, ret.status)
    /\ pc' = "done"
    /\ Release
    /\ UNCHANGED <<frame, status, full_len, buf, calls, reports, ret,
                   accept_result, accept_list, neg_reports, envvars, callvars,
                   locvars>>

(***************************************************************************)
(* canonicalize, add_likely_subtags, minimize_subtags on a ULoc            *)
(***************************************************************************)
\* call_buffered_string_method on the receiver: as_c_str, then the protocol;
\* the result is wrapped by TryFromReturn (.map(|repr| ULoc { repr }))
ULocMethod ==
    /\ pc = "idle"
    /\ held # <<>>
    /\ UNCHANGED <<envvars, locvars>>
    /\ arg' = held[1]
    /\ \E m \in ULocMethods :
        /\ method' = m
        /\ IF HasNul(held[1])
           THEN /\ Panic
                /\ frame' = "method"
                /\ UNCHANGED <<status, full_len, buf, calls, reports,
                               accept_result, accept_list, neg_reports>>
           ELSE /\ EnterProtocol("method")
                /\ UNCHANGED <<accept_result, accept_list, neg_reports, outcome,
                               memvars>>

(***************************************************************************)
(* set_default, get_default                                                *)
(***************************************************************************)
\* SetDefaultArg that passes only the head of the repr
SetDefaultArg_Head(repr) == SubSeq(repr, 1, 1)

\* the text of `asciiz`: loc.repr.clone()
SetDefaultArg(repr) == repr

\* set_default with as_c_str's expect instead of map_err
SetDefaultResult_Expect(repr, st) ==
    IF HasNul(repr) THEN OutPanic
    ELSE IF ok_or_warning(st) THEN OutOk(<<>>, ULOC_ACCEPT_FAILED)
    ELSE OutErr("ErrSys", st)

\* CString::new(..).map_err(..)?, then ok_or_warning(status)
SetDefaultResult(repr, st) ==
    IF HasNul(repr) THEN OutErr("ErrNul", OK_CODE)
    ELSE IF ok_or_warning(st) THEN OutOk(<<>>, ULOC_ACCEPT_FAILED)
    ELSE OutErr("ErrSys", st)

SetDefault ==
    /\ pc = "idle"
    /\ held # <<>>
    /\ \E st \in UErrorCode :
        LET repr == SetDefaultArg(held[1])
            called == ~HasNul(repr)
            stored == called /\ ok_or_warning(st)
        IN  /\ outcome' = SetDefaultResult(repr, st)
            /\ status' = IF called THEN st ELSE OK_CODE
            /\ default' = IF stored THEN StoredDefault(repr) ELSE default
            /\ last_set' = IF stored THEN held ELSE <<>>
            /\ arg' = repr
    /\ method' = "uloc_setDefault"
    /\ frame' = "set_default"
    /\ pc' = "done"
    /\ UNCHANGED <<full_len, buf, calls, reports, ret, accept_result,
                   accept_list, neg_reports, envvars, held, memvars>>

\* uloc_getDefault, CStr::to_str, then ULoc::try_from(&CStr) -> canonicalize
GetDefault ==
    /\ pc = "idle"
    /\ UNCHANGED <<envvars, locvars>>
    /\ method' = "uloc_canonicalize"
    /\ arg' = default
    /\ IF ~Utf8Ok(default) \/ HasNul(default)
       THEN /\ Panic
            /\ frame' = "get_default"
            /\ UNCHANGED <<status, full_len, buf, calls, reports,
                           accept_result, accept_list, neg_reports>>
       ELSE /\ EnterProtocol("get_default")
            /\ UNCHANGED <<accept_result, accept_list, neg_reports, outcome,
                           memvars>>

\* .expect("could not convert default locale to ULoc")
GetDefaultReturn ==
    /\ frame = "get_default"
    /\ pc = "returned"
    /\ IF ret.kind = "Ok"
       THEN /\ outcome' = ULocResult(ret)
            /\ pc' = "done"
            /\ UNCHANGED <<ret, memvars>>
       ELSE Panic
    /\ UNCHANGED <<frame, status, full_len, buf, calls, reports,
                   accept_result, accept_list, neg_reports, envvars, callvars,
                   locvars>>

(***************************************************************************)
(* The caller takes the result and may start the next operation.           *)
(***************************************************************************)
\* the caller keeps the ULoc it was handed, in place of the one it held
Keep ==
    /\ pc = "done"
    /\ outcome.kind = "Ok"
    /\ outcome.loc # <<>>
    /\ held' = outcome.loc
    /\ frame' = "idle"
    /\ pc' = "idle"
    /\ status' = OK_CODE
    /\ full_len' = 0
    /\ buf' = <<>>
    /\ calls' = <<>>
    /\ reports' = <<>>
    /\ ret' = NoRet
    /\ accept_result' = ULOC_ACCEPT_FAILED
    /\ accept_list' = <<>>
    /\ neg_reports' = <<>>
    /\ outcome' = NoOutcome
    /\ method' = "none"
    /\ arg' = <<>>
    /\ UNCHANGED <<envvars, default, last_set, memvars>>

Return ==
    /\ pc = "done"
    /\ frame' = "idle"
    /\ pc' = "idle"
    /\ status' = OK_CODE
    /\ full_len' = 0
    /\ buf' = <<>>
    /\ calls' = <<>>
    /\ reports' = <<>>
    /\ ret' = NoRet
    /\ accept_result' = ULOC_ACCEPT_FAILED
    /\ accept_list' = <<>>
    /\ neg_reports' = <<>>
    /\ outcome' = NoOutcome
    /\ method' = "none"
    /\ arg' = <<>>
    /\ UNCHANGED <<envvars, locvars, memvars>>

Next ==
    \/ TryFromStr
    \/ FirstCall
    \/ CheckOverflow
    \/ SecondCall
    \/ Finish
    \/ TryFromReturn
    \/ AcceptLanguage
    \/ AcceptDecide
    \/ AcceptReturn
    \/ Return

Spec == Init /\ [][Next]_vars

\* the operations on ULoc values and on the default locale, over a truthful
\* native library
InitTruthful ==
    /\ Idle
    /\ native = "truthful"
    /\ silent \in BOOLEAN

NextTruthful ==
    \/ TryFromStr
    \/ ULocMethod
    \/ FirstCall
    \/ CheckOverflow
    \/ SecondCall
    \/ Finish
    \/ TryFromReturn
    \/ SetDefault
    \/ GetDefault
    \/ GetDefaultReturn
    \/ Keep
    \/ Return

SpecTruthful == InitTruthful /\ [][NextTruthful]_vars

TypeOK ==
    /\ frame \in {"idle", "try_from", "method", "negotiate", "canonicalize",
                  "set_default", "get_default"}
    /\ pc \in {"idle", "first", "check", "second", "finish", "returned", "done"}
    /\ status \in UErrorCode
    /\ full_len \in Int
    /\ Len(calls) = Len(reports)
    /\ accept_result \in UAcceptResult

(***************************************************************************)
(* Properties.                                                             *)
(***************************************************************************)
\* a protocol invocation that made a native call has returned or panicked
ProtocolOver == pc \in {"returned", "done"} /\ Len(reports) >= 1
FirstReport == reports[1]
LastReport == reports[Len(reports)]
\* accept_language is over and its negotiation invocation made a native call
AcceptOver ==
    /\ frame \in {"negotiate", "canonicalize"}
    /\ pc = "done"
    /\ Len(neg_reports) >= 1
LastNegReport == neg_reports[Len(neg_reports)]
ErrKinds == {"ErrSys", "ErrUtf8", "ErrWrapper", "ErrEnum"}

\* C1: when the first native call leaves U_BUFFER_OVERFLOW_ERROR and reports
\* a length L > 0, the invocation makes exactly two native calls and the
\* second one is given capacity L.
C1_RetryOnOverflowStatus ==
    (ProtocolOver /\ FirstReport.status = U_BUFFER_OVERFLOW_ERROR
                  /\ FirstReport.len > 0)
        => (Len(calls) = 2 /\ calls[2] = FirstReport.len)

\* C2: when the first native call leaves an OK status and reports a length
\* L > LOCALE_CAPACITY, the buffer is resized to exactly L before the retry,
\* the retry is given capacity L, and the invocation makes exactly two calls.
SilentTruncation ==
    /\ Len(reports) >= 1
    /\ FirstReport.status = OK_CODE
    /\ FirstReport.len > LOCALE_CAPACITY
C2_RetryOnSilentTruncation ==
    /\ (pc = "second" /\ SilentTruncation)
        => (Len(buf) = FirstReport.len /\ full_len = FirstReport.len
            /\ Len(calls) = 1)
    /\ (pc \in {"finish", "returned", "done"} /\ SilentTruncation)
        => (Len(calls) = 2 /\ calls[1] = LOCALE_CAPACITY
            /\ calls[2] = FirstReport.len /\ Len(buf) = FirstReport.len)

C2_Witness ==
    /\ pc = "returned"
    /\ SilentTruncation
    /\ Len(calls) = 2
    /\ calls[2] = LOCALE_CAPACITY + 1

\* C3: when the first native call reports length 0 with a status that is not
\* a strict error, there is no second call and the protocol returns Ok("").
C3_ZeroLengthIsEmptyString ==
    (pc = "returned" /\ Len(reports) >= 1 /\ FirstReport.len = 0
                     /\ ok_or_warning(FirstReport.status))
        => (Len(calls) = 1 /\ ret = RetOk(<<>>))

\* C4: an Ok(s) of the protocol is the complete native output: s is as long
\* as the length the native function reported and has no padding byte.
C4_OkIsTheCompleteOutput ==
    (pc = "returned" /\ Len(reports) >= 1 /\ ret.kind = "Ok")
        => /\ Len(ret.str) = LastReport.len
           /\ \A i \in 1..Len(ret.str) : ret.str[i] # NulByte

\* C5: a negative reported length never yields Ok; unless the status is a
\* strict error (reported as such), it yields the wrapper error.
C5_NegativeLengthIsWrapperErr ==
    (ProtocolOver /\ FirstReport.len < 0)
        => /\ ret.kind # "Ok"
           /\ ok_or_warning(LastReport.status) => ret.kind = "ErrWrapper"

\* C6: when the retry call signals overflow again (by status, or by a length
\* above the capacity it was given), the protocol stops with a failed
\* assertion; it returns neither a value nor an error, and makes no third call.
C6_SecondOverflowIsAssertion ==
    (ProtocolOver /\ Len(reports) = 2
        /\ (reports[2].status = U_BUFFER_OVERFLOW_ERROR \/ reports[2].len > calls[2]))
        => (ret.kind = "Panic" /\ Len(calls) = 2)

\* C7: the status left by the last native call decides the outcome: a strict
\* error gives Err carrying that status, OK or a warning gives the decoded
\* string (or the decoding error).
C7_LastStatusDecides ==
    ProtocolOver
        => IF ok_or_warning(LastReport.status)
           THEN ret.kind \in {"Ok", "ErrUtf8"}
           ELSE ret = RetSys(LastReport.status)

\* C8: when accept_language returns and the negotiation call ended with a
\* strict-error status, it returns Err, whatever the match quality; and it
\* returns Ok((None, Failed)) only after a successful call that reported no match.
C8_NativeErrorIsErr ==
    (AcceptOver /\ outcome.kind # "Panic")
        => /\ ~ok_or_warning(LastNegReport.status) => outcome.kind \in ErrKinds
           /\ outcome = OutOk(<<>>, ULOC_ACCEPT_FAILED)
                => /\ ok_or_warning(LastNegReport.status)
                   /\ LastNegReport.quality = ULOC_ACCEPT_FAILED

\* C9: when the negotiation call succeeds and reports ULOC_ACCEPT_FAILED,
\* accept_language returns Ok((None, ULOC_ACCEPT_FAILED)).
NegotiationFailedToMatch ==
    /\ AcceptOver
    /\ ok_or_warning(LastNegReport.status)
    /\ LastNegReport.quality = ULOC_ACCEPT_FAILED
C9_NoMatchIsOk ==
    NegotiationFailedToMatch => outcome = OutOk(<<>>, ULOC_ACCEPT_FAILED)

C9_Witness ==
    /\ NegotiationFailedToMatch
    /\ Len(accept_list) >= 1
    /\ outcome.kind = "Ok"

\* C10: every Ok((m, q)) of accept_language has m = Some exactly when
\* q # ULOC_ACCEPT_FAILED, and then q is the quality the native call reported.
C10_MatchIffNotFailed ==
    (frame \in {"negotiate", "canonicalize"} /\ pc = "done" /\ outcome.kind = "Ok")
        => /\ (outcome.loc # <<>>) <=> (outcome.quality # ULOC_ACCEPT_FAILED)
           /\ outcome.loc # <<>>
                => /\ outcome.quality = LastNegReport.quality
                   /\ outcome.quality \in {ULOC_ACCEPT_VALID, ULOC_ACCEPT_FALLBACK}

C10_Witness ==
    /\ frame = "canonicalize"
    /\ pc = "done"
    /\ outcome.kind = "Ok"
    /\ outcome.loc # <<>>
    /\ outcome.quality = ULOC_ACCEPT_FALLBACK

\* C11: while accept_language is inside the negotiation invocation (before,
\* between and after its native calls) every pointer of the accept-list
\* array is the address of a heap buffer that accept_list_cstrings still
\* owns, and the enumeration exists; both stay until the function is left,
\* and on every way out (return, early return, panic) they are released.
PointersValid ==
    /\ Len(ptrs) = Len(accept_list)
    /\ \A i \in 1..Len(ptrs) : \E j \in 1..Len(cstrings) : cstrings[j] = ptrs[i]
C11_AcceptListOutlivesNativeCalls ==
    /\ (frame \in {"negotiate", "canonicalize"} /\ pc \notin {"idle", "done"})
        => (PointersValid /\ enum_live)
    /\ pc \in {"idle", "done"} => (cstrings = <<>> /\ ptrs = <<>> /\ ~enum_live)

C11_Witness ==
    /\ frame = "negotiate"
    /\ pc = "finish"
    /\ Len(calls) = 2
    /\ Len(ptrs) >= 1
    /\ PointersValid
    /\ enum_live

\* C12: ULoc::try_from(&str) on a text with an interior NUL ends with a
\* returned Err, without a native call and without a panic.
C12_InteriorNulIsErr ==
    (frame = "try_from" /\ pc = "done" /\ HasNul(arg))
        => (outcome.kind \in ErrKinds \cup {"ErrNul"} /\ calls = <<>>)

\* C17: an invocation of the protocol makes one or two native calls, the
\* first with capacity LOCALE_CAPACITY, and a second one only after the first
\* left U_BUFFER_OVERFLOW_ERROR or left OK with a length above LOCALE_CAPACITY.
C17_OneOrTwoCalls ==
    /\ Len(calls) <= 2
    /\ Len(calls) >= 1 => calls[1] = LOCALE_CAPACITY
    /\ Len(calls) = 2
        => \/ FirstReport.status = U_BUFFER_OVERFLOW_ERROR
           \/ (FirstReport.status = OK_CODE /\ FirstReport.len > LOCALE_CAPACITY)
    /\ pc = "returned" => Len(calls) >= 1

C17_Witness ==
    /\ pc = "returned"
    /\ Len(calls) = 2
    /\ ret.kind = "Ok"

\* C13: every ULoc that exists (the one an operation hands out, the one the
\* caller holds) has a repr without a NUL byte.
C13_NoULocHoldsNul ==
    /\ (pc = "done" /\ outcome.kind = "Ok" /\ outcome.loc # <<>>)
        => ~HasNul(outcome.loc[1])
    /\ held # <<>> => ~HasNul(held[1])

\* C14: every ULoc handed to the caller got its repr from uloc_canonicalize.
C14_EveryULocIsCanonicalized ==
    (pc = "done" /\ outcome.kind = "Ok" /\ outcome.loc # <<>>)
        => method = "uloc_canonicalize"

\* C15: a ULoc returned by get_default after a set_default(loc) that returned
\* Ok, with no set_default in between, has the label of loc.
C15_GetDefaultReadsLastSet ==
    (frame = "get_default" /\ pc = "done" /\ outcome.kind = "Ok"
        /\ last_set # <<>>)
        => outcome.loc = last_set

C15_Witness ==
    /\ frame = "get_default"
    /\ pc = "done"
    /\ outcome.kind = "Ok"
    /\ last_set # <<>>
    /\ outcome.loc = <<<<AsciiByte, UnderscoreByte, AsciiByte>>>>

\* C16: set_default never panics: a repr with a NUL and a strict-error status
\* each give Err, anything else Ok(()); get_default never returns Err: when
\* the default cannot be made a ULoc it panics.
C16_SetDefaultReturnsGetDefaultAborts ==
    /\ (frame = "set_default" /\ pc = "done")
        => /\ outcome.kind \in {"Ok", "ErrNul", "ErrSys"}
           /\ outcome.kind = "ErrNul" <=> HasNul(held[1])
           /\ outcome.kind = "ErrSys"
                <=> (~HasNul(held[1]) /\ status \notin {OK_CODE} \cup WarningCodes)
    /\ (frame = "get_default" /\ pc = "done")
        => /\ outcome.kind \in {"Ok", "Panic"}
           /\ (Len(reports) >= 1 /\ LastReport.status = U_ILLEGAL_ARGUMENT_ERROR)
                => outcome.kind = "Panic"

C16_Witness ==
    /\ frame = "set_default"
    /\ pc = "done"
    /\ HasNul(held[1])
    /\ outcome.kind = "ErrNul"

====
